---------------------------- MODULE Spec2Model ----------------------------
(***************************************************************************)
(* Model of ReinforcementDrawing/ReinforcementDrawingfunc.py: the          *)
(* per-shape SVG builders, the dimension layout and the drawing assembler  *)
(* getReinforcementDrawingSVG.                                             *)
(*                                                                         *)
(* Numbers.  Drawing coordinates are floats in the program.  The model     *)
(* keeps them in fixed point, in quarters of a drawing unit (the value 6   *)
(* is 1.5 units), so that Python's round() is a real conversion: Round     *)
(* rounds to the nearest integer, ties to the even one.  Input vertices    *)
(* lie on the half-unit grid, so the midpoints taken by                    *)
(* getStirrupSVGPoints are exact.                                          *)
(*                                                                         *)
(* Geometry.  A vertex of the model is the image of a 3D vertex under      *)
(* getProjectionToSVGPlane, a pair <<x, y>>.  A placement is the           *)
(* projected translation it applies to the base wire.                      *)
(*                                                                         *)
(* SVG.  An ElementTree element is a record [tag, at, kids]: its tag, the  *)
(* tuple of its attribute values, and the sequence of its children.        *)
(***************************************************************************)
EXTENDS Integers, Sequences, FiniteSets, TLC

VARIABLES
    pc,              \* position of getReinforcementDrawingSVG / of the caller
    box,             \* min_x, min_y, max_x, max_y of the projected bounding box
    rebars_svg,      \* the accumulated <g id="Rebars"> tree
    h_dim_y_offset,  \* dimension offset accumulators of the assembler
    v_dim_x_offset,
    rebar,           \* the loop variable: the rebar being built / built last
    rebar_data,      \* what the builder returned for it
    visible_rebars,  \* names of the rebars reported visible, in order
    processed,       \* history: one entry per rebar the assembler has built
    svg,             \* attributes of the root element set at the end
    query            \* the lookup made by the round-corner round trip

vars == <<pc, box, rebars_svg, h_dim_y_offset, v_dim_x_offset, rebar,
          rebar_data, visible_rebars, processed, svg, query>>

---------------------------------------------------------------------------
(* Bounds of the model. *)

\* Largest half-unit grid index of a vertex coordinate.
MaxCoord == 2
\* Most rebars in one rebars_list.
MaxRebars == 3
\* Most edges of a (filleted) base wire.
MaxEdges == 2
\* Most placements in a PlacementList.
MaxPlacements == 2

---------------------------------------------------------------------------
(* Fixed-point arithmetic. *)

\* n drawing units in fixed point.
U(n) == 4 * n

Abs(n) == IF n < 0 THEN 0 - n ELSE n

Min(a, b) == IF a < b THEN a ELSE b

Max(a, b) == IF a > b THEN a ELSE b

\* Python round() on the float c/4: nearest integer, ties to even.
Round(c) ==
    LET q == c \div 4
        r == c % 4
    IN  IF r < 2 THEN q
        ELSE IF r > 2 THEN q + 1
        ELSE IF q % 2 = 0 THEN q ELSE q + 1

\* str.format of a value in a path string.  An int prints as its digits, a
\* bool as "True" or "False".
FormatInt(i) == IF i = 0 THEN "0" ELSE IF i = 1 THEN "1" ELSE "int"

FormatBool(b) == IF b THEN "True" ELSE "False"

---------------------------------------------------------------------------
(* ElementTree. *)

Element(tag, at, kids) == [tag |-> tag, at |-> at, kids |-> kids]

RECURSIVE DescendantsOf(_, _)
DescendantsOf(kids, i) ==
    IF i > Len(kids) THEN <<>>
    ELSE <<kids[i]>> \o DescendantsOf(kids[i].kids, 1) \o DescendantsOf(kids, i + 1)

\* The elements './/...' ranges over: every descendant, in document order.
Descendants(e) == DescendantsOf(e.kids, 1)

\* Element.append
Append_(e, kid) == [e EXCEPT !.kids = Append(@, kid)]

---------------------------------------------------------------------------
(* SVGfunc: the primitive builders and containment predicates. *)

getPointSVG(p, diameter) ==
    Element("circle", <<Round(p[1]), Round(p[2]), diameter>>, <<>>)

isPointInSVG(p, tree) ==
    LET d == Descendants(tree)
    IN  \E i \in 1..Len(d) :
            /\ d[i].tag = "circle"
            /\ d[i].at[1] = Round(p[1])
            /\ d[i].at[2] = Round(p[2])

getLineSVG(p1, p2) ==
    Element("line", <<Round(p1[1]), Round(p1[2]), Round(p2[1]), Round(p2[2])>>, <<>>)

isLineInSVG(p1, p2, tree) ==
    LET d == Descendants(tree)
    IN  \E i \in 1..Len(d) :
            /\ d[i].tag = "line"
            /\ \/ d[i].at = <<Round(p1[1]), Round(p1[2]), Round(p2[1]), Round(p2[2])>>
               \/ d[i].at = <<Round(p2[1]), Round(p2[2]), Round(p1[1]), Round(p1[2])>>

getSVGPathElement(d) == Element("path", d, <<>>)

getSVGTextElement(text, x, y) == Element("text", <<text, x, y>>, <<>>)


---------------------------------------------------------------------------
(* Rebars.  A rebar is a record                                            *)
(*   Name           rebar.Name                                             *)
(*   RebarShape     rebar.RebarShape                                       *)
(*   faceon         round(view_plane.axis.cross(span axis).Length) == 0    *)
(*   alignV         round(span axis.cross(view_plane.u).Length) == 0       *)
(*   edges          the sorted edges of the filleted base wire, projected  *)
(*   PlacementList  the projected translations of rebar.PlacementList      *)
(*   radius         rebar.Rounding * rebar.Diameter.Value                  *)
(*   Diameter       rebar.Diameter.Value                                   *)
(*   Amount         rebar.Amount                                           *)
(* An edge is [geomType, v0, v1, angle_neg]: DraftGeomUtils.geomType, the  *)
(* projections of Vertexes[0] and Vertexes[1], and whether                 *)
(* DraftVecUtils.angle(t1, t2, view_plane.axis) < 0.                       *)

Edge(geomType, v0, v1, angle_neg) ==
    [geomType |-> geomType, v0 |-> v0, v1 |-> v1, angle_neg |-> angle_neg]

\* wire.Vertexes of a wire given by its sorted edges
Vertexes(edges) == <<edges[1].v0>> \o [i \in 1..Len(edges) |-> edges[i].v1]

\* wire.Placement = placement.multiply(basewire.Placement), projected
Placed(edges, placement) ==
    [i \in 1..Len(edges) |->
        [edges[i] EXCEPT !.v0 = <<@[1] + placement[1], @[2] + placement[2]>>,
                         !.v1 = <<@[1] + placement[1], @[2] + placement[2]>>]]

---------------------------------------------------------------------------
(* getLineDimensionsData.  x_cord / y_cord are quotients of floats: the    *)
(* model keeps such a quotient as the pair <<numerator, denominator>>.     *)
(* raised is TRUE when the division raises ZeroDivisionError.              *)

\* FlippedExtents is SmallerVerticalExtent with the two extents exchanged
FlippedExtents(p1, p2) == Abs(p2[1] - p1[1]) < Abs(p2[2] - p1[2])

\* abs(p2.y - p1.y) < abs(p2.x - p1.x)
SmallerVerticalExtent(p1, p2) == Abs(p2[2] - p1[2]) < Abs(p2[1] - p1[1])

getLineDimensionsData(p1, p2, dimension_text, h_dim_x, h_dim_y, v_dim_x, v_dim_y) ==
    LET dx == p2[1] - p1[1]
        dy == p2[2] - p1[2]
    IN  IF SmallerVerticalExtent(p1, p2)
        THEN LET x_cord == v_dim_x
                 y_cord == <<(x_cord - p1[1]) * dy + p1[2] * dx, dx>>
             IN  [svg |-> Element("g", <<>>,
                        << getSVGPathElement(<<"M", x_cord, y_cord, "V", v_dim_y>>),
                           getSVGTextElement(dimension_text, v_dim_x, v_dim_y) >>),
                  dimension_line_horizontal |-> FALSE,
                  raised |-> FALSE]
        ELSE LET y_cord == h_dim_y
                 x_cord == <<(y_cord - p1[2]) * dx + p1[1] * dy, dy>>
             IN  [svg |-> Element("g", <<>>,
                        IF dy = 0 THEN <<>>
                        ELSE << getSVGPathElement(<<"M", x_cord, y_cord, "H", h_dim_x>>),
                                getSVGTextElement(dimension_text, h_dim_x, h_dim_y) >>),
                  dimension_line_horizontal |-> TRUE,
                  raised |-> (dy = 0)]

---------------------------------------------------------------------------
(* Round corners. *)

\* flag_sweep = int(DraftVecUtils.angle(t1, t2, view_plane.axis) < 0)
flag_sweep(edge) == IF edge.angle_neg THEN 1 ELSE 0

\* the "d" attribute "M{x1} {y1} A{radius} {radius} 0 0 {flag_sweep} {x2} {y2}"
ArcPath(p1, p2, radius, flag) ==
    <<"M", Round(p1[1]), Round(p1[2]), "A", Round(radius), Round(radius),
      "0", "0", flag, Round(p2[1]), Round(p2[2])>>

\* svg = ElementTree.Element("path"); svg.set("d", ...)
getRoundCornerSVG(edge, radius) ==
    Element("path", ArcPath(edge.v0, edge.v1, radius, FormatInt(flag_sweep(edge))),
            <<>>)

isRoundCornerInSVG(edge, radius, tree) ==
    LET all == Descendants(tree)
        found(d) == \E i \in 1..Len(all) : all[i].tag = "path" /\ all[i].at = d
    IN  IF found(ArcPath(edge.v0, edge.v1, radius, FormatInt(flag_sweep(edge))))
        THEN TRUE
        ELSE IF found(ArcPath(edge.v1, edge.v0, radius,
                              FormatBool(flag_sweep(edge) = 0)))
        THEN TRUE
        ELSE FALSE

---------------------------------------------------------------------------
(* getStirrupSVGPoints *)

RECURSIVE Extent(_, _, _)
Extent(vertexes, i, e) ==
    IF i > Len(vertexes) THEN e
    ELSE Extent(vertexes, i + 1,
                [min_x |-> Min(e.min_x, vertexes[i][1]),
                 min_y |-> Min(e.min_y, vertexes[i][2]),
                 max_x |-> Max(e.max_x, vertexes[i][1]),
                 max_y |-> Max(e.max_y, vertexes[i][2])])

\* the min/max loop both getStirrupSVGPoints and the assembler run
BoundingExtent(points) ==
    Extent(points, 2, [min_x |-> points[1][1], min_y |-> points[1][2],
                       max_x |-> points[1][1], max_y |-> points[1][2]])

getStirrupSVGPoints(vertexes, alignV) ==
    LET e == BoundingExtent(vertexes)
    IN  IF alignV
        THEN LET x_cord == (e.min_x + e.max_x) \div 2
             IN  << <<x_cord, e.min_y>>, <<x_cord, e.max_y>> >>
        ELSE LET y_cord == (e.min_y + e.max_y) \div 2
             IN  << <<e.min_x, y_cord>>, <<e.max_x, y_cord>> >>

---------------------------------------------------------------------------
(* getStirrupSVGData.  The loops carry st = [svg, visibility]: the         *)
(* per-rebar group built so far and is_rebar_visible.                      *)

SameRounded(p1, p2) == Round(p1[1]) = Round(p2[1]) /\ Round(p1[2]) = Round(p2[2])

\* StirrupEdgeStepUntested is StirrupEdgeStep without the duplicate tests
StirrupEdgeStepUntested(edge, radius, tree, st) ==
    IF edge.geomType = "Line"
    THEN [svg |-> Append_(st.svg, getLineSVG(edge.v0, edge.v1)), visibility |-> TRUE]
    ELSE [svg |-> Append_(st.svg, getRoundCornerSVG(edge, radius)),
          visibility |-> TRUE]

\* StirrupEdgeStepUnflagged is StirrupEdgeStep appending without setting
\* is_rebar_visible
StirrupEdgeStepUnflagged(edge, radius, tree, st) ==
    IF edge.geomType = "Line"
    THEN IF st.visibility \/ ~isLineInSVG(edge.v0, edge.v1, tree)
         THEN [svg |-> Append_(st.svg, getLineSVG(edge.v0, edge.v1)),
               visibility |-> st.visibility]
         ELSE st
    ELSE IF edge.geomType = "Circle"
    THEN IF st.visibility \/ ~isRoundCornerInSVG(edge, radius, tree)
         THEN [svg |-> Append_(st.svg, getRoundCornerSVG(edge, radius)),
               visibility |-> st.visibility]
         ELSE st
    ELSE st

\* one iteration of "for edge in edges" in the face-on branch
StirrupEdgeStep(edge, radius, tree, st) ==
    IF edge.geomType = "Line"
    THEN IF st.visibility \/ ~isLineInSVG(edge.v0, edge.v1, tree)
         THEN [svg |-> Append_(st.svg, getLineSVG(edge.v0, edge.v1)),
               visibility |-> TRUE]
         ELSE st
    ELSE IF edge.geomType = "Circle"
    THEN IF st.visibility \/ ~isRoundCornerInSVG(edge, radius, tree)
         THEN [svg |-> Append_(st.svg, getRoundCornerSVG(edge, radius)),
               visibility |-> TRUE]
         ELSE st
    ELSE st

RECURSIVE StirrupEdgesLoop(_, _, _, _, _)
StirrupEdgesLoop(edges, i, radius, tree, st) ==
    IF i > Len(edges) THEN st
    ELSE StirrupEdgesLoop(edges, i + 1, radius, tree,
                          StirrupEdgeStep(edges[i], radius, tree, st))

\* StirrupPlacementStepEach is StirrupPlacementStep with every placement
\* judged by its own test
StirrupPlacementStepEach(wire, alignV, tree, st) ==
    LET pts == getStirrupSVGPoints(Vertexes(wire), alignV)
    IN  IF ~isLineInSVG(pts[1], pts[2], tree)
        THEN [svg |-> Append_(st.svg, getLineSVG(pts[1], pts[2])),
              visibility |-> TRUE]
        ELSE st

\* one iteration of "for placement in rebar.PlacementList"
StirrupPlacementStep(wire, alignV, tree, st) ==
    LET pts == getStirrupSVGPoints(Vertexes(wire), alignV)
        visible == st.visibility \/ ~isLineInSVG(pts[1], pts[2], tree)
    IN  IF visible
        THEN [svg |-> Append_(st.svg, getLineSVG(pts[1], pts[2])),
              visibility |-> TRUE]
        ELSE st

RECURSIVE StirrupPlacementsLoop(_, _, _, _)
StirrupPlacementsLoop(r, i, tree, st) ==
    IF i > Len(r.PlacementList) THEN st
    ELSE StirrupPlacementsLoop(r, i + 1, tree,
            StirrupPlacementStep(Placed(r.edges, r.PlacementList[i]), r.alignV, tree, st))

NewGroup(r) == [svg |-> Element("g", <<r.Name>>, <<>>), visibility |-> FALSE]

getStirrupSVGData(r, tree) ==
    IF r.faceon
    THEN StirrupEdgesLoop(r.edges, 1, r.radius, tree, NewGroup(r))
    ELSE StirrupPlacementsLoop(r, 1, tree, NewGroup(r))

---------------------------------------------------------------------------
(* getUShapeRebarSVGData (U-shape, bent and L-shape rebars) *)

\* one iteration of "for edge in edges" in the face-on branch
UShapeEdgeStep(edge, r, tree, st) ==
    IF edge.geomType = "Line"
    THEN LET point == SameRounded(edge.v0, edge.v1)
             edge_svg == IF point THEN getPointSVG(edge.v0, r.Diameter)
                         ELSE getLineSVG(edge.v0, edge.v1)
             visible == st.visibility
                        \/ (~point /\ ~isLineInSVG(edge.v0, edge.v1, tree))
         IN  IF visible
             THEN [svg |-> Append_(st.svg, edge_svg), visibility |-> TRUE]
             ELSE st
    ELSE IF edge.geomType = "Circle"
    THEN LET flat == \/ Round(edge.v0[1]) = Round(edge.v1[1])
                     \/ Round(edge.v0[2]) = Round(edge.v1[2])
             edge_svg == IF flat THEN getLineSVG(edge.v0, edge.v1)
                         ELSE getRoundCornerSVG(edge, r.radius)
             visible == st.visibility
                        \/ (IF flat THEN ~isLineInSVG(edge.v0, edge.v1, tree)
                            ELSE ~isRoundCornerInSVG(edge, r.radius, tree))
         IN  IF visible
             THEN [svg |-> Append_(st.svg, edge_svg), visibility |-> TRUE]
             ELSE st
    ELSE st

RECURSIVE UShapeEdgesLoop(_, _, _, _, _)
UShapeEdgesLoop(edges, i, r, tree, st) ==
    IF i > Len(edges) THEN st
    ELSE UShapeEdgesLoop(edges, i + 1, r, tree, UShapeEdgeStep(edges[i], r, tree, st))

\* one iteration of "for edge in edges" in the placement-list branch
UShapePlacedEdgeStep(edge, r, tree, st) ==
    IF edge.geomType = "Line"
    THEN LET point == SameRounded(edge.v0, edge.v1)
             edge_svg == IF point THEN getPointSVG(edge.v0, r.Diameter)
                         ELSE getLineSVG(edge.v0, edge.v1)
             visible == st.visibility
                        \/ (~point /\ ~isLineInSVG(edge.v0, edge.v1, tree))
         IN  IF visible \/ ~isLineInSVG(edge.v0, edge.v1, tree)
             THEN [svg |-> Append_(st.svg, edge_svg), visibility |-> TRUE]
             ELSE st
    ELSE UShapeEdgeStep(edge, r, tree, st)

RECURSIVE UShapePlacedEdgesLoop(_, _, _, _, _)
UShapePlacedEdgesLoop(edges, i, r, tree, st) ==
    IF i > Len(edges) THEN st
    ELSE UShapePlacedEdgesLoop(edges, i + 1, r, tree,
                               UShapePlacedEdgeStep(edges[i], r, tree, st))

RECURSIVE UShapePlacementsLoop(_, _, _, _)
UShapePlacementsLoop(r, i, tree, st) ==
    IF i > Len(r.PlacementList) THEN st
    ELSE UShapePlacementsLoop(r, i + 1, tree,
            UShapePlacedEdgesLoop(Placed(r.edges, r.PlacementList[i]), 1, r, tree, st))

getUShapeRebarSVGData(r, tree) ==
    IF r.faceon
    THEN UShapeEdgesLoop(r.edges, 1, r, tree, NewGroup(r))
    ELSE UShapePlacementsLoop(r, 1, tree, NewGroup(r))

---------------------------------------------------------------------------
(* getStraightRebarSVGData.  off = [h_dim_x_offset, h_dim_y_offset,        *)
(* v_dim_x_offset, v_dim_y_offset], the four offsets passed in.            *)

\* AdvanceOther is AdvanceOffsets advancing the accumulator of the other
\* orientation
AdvanceOther(off, horizontal) ==
    [h_dim_y_offset |-> IF horizontal THEN off.h_dim_y_offset
                        ELSE off.h_dim_y_offset + U(100),
     v_dim_x_offset |-> IF horizontal THEN off.v_dim_x_offset + U(100)
                        ELSE off.v_dim_x_offset]

\* AdvanceBoth is AdvanceOffsets advancing both accumulators
AdvanceBoth(off, horizontal) ==
    [h_dim_y_offset |-> off.h_dim_y_offset + U(100),
     v_dim_x_offset |-> off.v_dim_x_offset + U(100)]

\* if dimension_data["dimension_line_horizontal"]: h_dim_y_offset += 100
\* else: v_dim_x_offset += 100
AdvanceOffsets(off, horizontal) ==
    [h_dim_y_offset |-> IF horizontal THEN off.h_dim_y_offset + U(100)
                        ELSE off.h_dim_y_offset,
     v_dim_x_offset |-> IF horizontal THEN off.v_dim_x_offset
                        ELSE off.v_dim_x_offset + U(100)]

StraightFaceOn(r, off, tree) ==
    LET p1 == Vertexes(r.edges)[1]
        p2 == Vertexes(r.edges)[2]
        point == SameRounded(p1, p2)
        rebar_svg == IF point THEN getPointSVG(p1, r.Diameter) ELSE getLineSVG(p1, p2)
        is_rebar_visible == IF point THEN ~isPointInSVG(p1, tree)
                            ELSE ~isLineInSVG(p1, p2, tree)
        dimension_data ==
            getLineDimensionsData(p1, p2, <<r.Amount, r.Diameter>>,
                                  off.h_dim_x_offset, off.h_dim_y_offset,
                                  off.v_dim_x_offset, off.v_dim_y_offset)
        group == NewGroup(r).svg
    IN  IF ~is_rebar_visible
        THEN [svg |-> group, visibility |-> FALSE,
              h_dim_y_offset |-> off.h_dim_y_offset,
              v_dim_x_offset |-> off.v_dim_x_offset, raised |-> FALSE]
        ELSE IF dimension_data.raised
        THEN [svg |-> Append_(group, rebar_svg), visibility |-> TRUE,
              h_dim_y_offset |-> off.h_dim_y_offset,
              v_dim_x_offset |-> off.v_dim_x_offset, raised |-> TRUE]
        ELSE [svg |-> Append_(Append_(group, rebar_svg), dimension_data.svg),
              visibility |-> TRUE,
              h_dim_y_offset |->
                  AdvanceOffsets(off, dimension_data.dimension_line_horizontal)
                      .h_dim_y_offset,
              v_dim_x_offset |->
                  AdvanceOffsets(off, dimension_data.dimension_line_horizontal)
                      .v_dim_x_offset,
              raised |-> FALSE]

\* one iteration of "for placement in rebar.PlacementList"
StraightPlacementStep(wire, r, tree, st) ==
    LET p1 == Vertexes(wire)[1]
        p2 == Vertexes(wire)[2]
        point == SameRounded(p1, p2)
        rebar_svg == IF point THEN getPointSVG(p1, r.Diameter) ELSE getLineSVG(p1, p2)
        visible ==
            \/ st.visibility
            \/ IF point
               THEN ~(isPointInSVG(p1, tree) \/ isPointInSVG(p1, st.svg))
               ELSE ~(isLineInSVG(p1, p2, tree) \/ isLineInSVG(p1, p2, st.svg))
    IN  IF visible
        THEN [svg |-> Append_(st.svg, rebar_svg), visibility |-> TRUE]
        ELSE st

RECURSIVE StraightPlacementsLoop(_, _, _, _)
StraightPlacementsLoop(r, i, tree, st) ==
    IF i > Len(r.PlacementList) THEN st
    ELSE StraightPlacementsLoop(r, i + 1, tree,
            StraightPlacementStep(Placed(r.edges, r.PlacementList[i]), r, tree, st))

getStraightRebarSVGData(r, off, tree) ==
    IF r.faceon
    THEN StraightFaceOn(r, off, tree)
    ELSE LET st == StraightPlacementsLoop(r, 1, tree, NewGroup(r))
         IN  [svg |-> st.svg, visibility |-> st.visibility,
              h_dim_y_offset |-> off.h_dim_y_offset,
              v_dim_x_offset |-> off.v_dim_x_offset, raised |-> FALSE]

---------------------------------------------------------------------------
(* Inputs: rebars, as the builders see them. *)

\* vertex coordinates on the half-unit grid
Coords == {2 * k : k \in 0..MaxCoord}

Points == Coords \X Coords

\* four vertices: the origin, b that differs from it and rounds to it, c
\* above it and d diagonal to it
Marks ==
    [a |-> <<0, 0>>, b |-> <<2, 0>>, c |-> <<0, 2 * MaxCoord>>,
     d |-> <<2 * MaxCoord, 2 * MaxCoord>>]

MarkPoints == {Marks.a, Marks.b, Marks.c, Marks.d}

GeomTypes == {<<"Line", FALSE>>, <<"Circle", FALSE>>, <<"Circle", TRUE>>}

\* the sorted edges of a wire through the vertices vs, with edge types ts
WireEdges(vs, ts) ==
    [i \in 1..(Len(vs) - 1) |-> Edge(ts[i][1], vs[i], vs[i + 1], ts[i][2])]

\* every filleted wire of n edges with vertices in pts: a fillet arc joins
\* two lines, so no two arcs are adjacent
Wires(pts, n) ==
    {WireEdges(vs, ts) :
        vs \in [1..(n + 1) -> pts],
        ts \in {t \in [1..n -> GeomTypes] :
                  \A i \in 1..(n - 1) : t[i][1] = "Line" \/ t[i + 1][1] = "Line"}}

WiresUpTo(pts, n) == UNION {Wires(pts, k) : k \in 1..n}

LineWires(pts) == {<<Edge("Line", p1, p2, FALSE)>> : p1 \in pts, p2 \in pts}

\* every placement list of 1..n placements, the first at the base position
PlacementLists(offsets, n) ==
    UNION {{<< <<0, 0>> >> \o rest : rest \in [1..(k - 1) -> offsets]} : k \in 1..n}

Rebar(name, shape, faceon, alignV, edges, placements) ==
    [Name |-> name, RebarShape |-> shape, faceon |-> faceon, alignV |-> alignV,
     edges |-> edges, PlacementList |-> placements,
     radius |-> U(1) + 2, Diameter |-> 8, Amount |-> Len(placements)]

\* the rebars of one shape, face-on and through their placement lists
Rebars(name, shape, wires, offsets, n) ==
    {Rebar(name, shape, TRUE, FALSE, w, << <<0, 0>> >>) : w \in wires}
    \cup {Rebar(name, shape, FALSE, v, w, pl) :
            v \in (IF shape = "Stirrup" THEN BOOLEAN ELSE {FALSE}),
            w \in wires, pl \in PlacementLists(offsets, n)}

---------------------------------------------------------------------------
(* getReinforcementDrawingSVG: the drawing assembler.                      *)
(*                                                                         *)
(* pc is <<"loop", k>> at the head of the loop over the rebars of category *)
(* k, <<"built", k>> when a builder has returned and the assembler has not *)
(* yet looked at its result, <<"frame">> after the last loop, <<"done">>   *)
(* on return and <<"error">> when an exception has ended the call.         *)

Categories ==
    <<"Stirrup", "BentShapeRebar", "UShapeRebar", "LShapeRebar",
      "StraightRebar", "HelicalRebar", "CustomRebar">>

NoValue == [none |-> TRUE]

\* the projected corners bounding_box.getPoint(pts[i]) of a drawing
BoxPoints(pad) ==
    << <<2 * MaxCoord, 2 * MaxCoord + pad>>, <<0 - pad, 0>>,
       <<2 * MaxCoord, 0>>, <<0 - pad, 2 * MaxCoord + pad>> >>

Boxes == {BoundingExtent(BoxPoints(pad)) : pad \in {0, 2}}

\* the wires of the rebars of category k a rebars_list may hold.  Among the
\* straight ones: a wire with coincident ends, one whose ends only round to
\* the same point, a line and a second line that rounds to the first; the
\* earlier categories hold the same line, the line reversed, the same point
\* and a fillet arc.
CategoryWires(k) ==
    IF k = 1 THEN {<<Edge("Line", Marks.a, Marks.c, FALSE)>>,
                   <<Edge("Circle", Marks.b, Marks.d, TRUE)>>}
    ELSE IF k = 2 THEN {<<Edge("Line", Marks.a, Marks.c, FALSE)>>}
    ELSE IF k = 3 THEN {<<Edge("Line", Marks.a, Marks.a, FALSE)>>,
                        <<Edge("Line", Marks.c, Marks.a, FALSE)>>}
    ELSE IF k = 4 THEN {<<Edge("Line", Marks.b, Marks.c, FALSE)>>}
    ELSE IF k = 5 THEN {<<Edge("Line", Marks.a, Marks.a, FALSE)>>,
                        <<Edge("Line", Marks.a, Marks.b, FALSE)>>,
                        <<Edge("Line", Marks.a, Marks.c, FALSE)>>,
                        <<Edge("Line", Marks.b, Marks.c, FALSE)>>,
                        <<Edge("Line", Marks.a, Marks.d, FALSE)>>}
    ELSE {<<Edge("Circle", Marks.b, Marks.d, TRUE)>>}

\* the rebars of category k a rebars_list may hold.  Every wire is drawn
\* face-on; through their placement lists, the straight wires from a to b and
\* from a to c with up to MaxPlacements placements, the wires of the other
\* categories with one.
DrawingRebars(name, k) ==
    IF k = 1
    THEN {r \in Rebars(name, "Stirrup", CategoryWires(1), {<<2, 0>>}, 1) : ~r.alignV}
    ELSE IF k \in 2..4
    THEN Rebars(name, Categories[k], CategoryWires(k), {<<2, 0>>}, 1)
    ELSE IF k = 5
    THEN {r \in Rebars(name, Categories[k], CategoryWires(k), {<<2, 0>>},
                       MaxPlacements) :
            \/ r.faceon
            \/ r.edges[1].v0 = Marks.a /\ r.edges[1].v1 \in {Marks.b, Marks.c}}
    ELSE {Rebar(name, IF k = 6 THEN "HelicalRebar" ELSE "Other", TRUE, FALSE, w,
                << <<0, 0>> >>) : w \in CategoryWires(k)}

\* ElementTree.fromstring(Draft.getSVG(rebar, ...)): the exporter's output
DraftSVG(r) == Element("path", <<"Draft.getSVG", r.Name>>, <<>>)

\* the four offsets the assembler passes to getStraightRebarSVGData
Offsets ==
    [h_dim_x_offset |-> box.max_x + U(50), h_dim_y_offset |-> h_dim_y_offset,
     v_dim_x_offset |-> v_dim_x_offset, v_dim_y_offset |-> box.min_y - U(50)]

\* <category>_svg = Element("g", id); rebars_svg.append(<category>_svg)
WithCategory(tree, k) == Append_(tree, Element("g", <<Categories[k]>>, <<>>))

Init ==
    /\ pc = <<"loop", 1>>
    /\ box \in Boxes
    /\ rebars_svg = WithCategory(Element("g", <<"Rebars">>, <<>>), 1)
    /\ h_dim_y_offset = 0
    /\ v_dim_x_offset = 0
    /\ rebar = NoValue
    /\ rebar_data = NoValue
    /\ visible_rebars = <<>>
    /\ processed = <<>>
    /\ svg = NoValue
    /\ query = NoValue

\* what the history keeps of one call of a builder
Called(r, off, data) == [rebar |-> r, seen |-> rebars_svg, off |-> off, data |-> data]

\* rebar_data = getStirrupSVGData(rebar, view_plane, rebars_svg)
BuildStirrup ==
    /\ pc = <<"loop", 1>>
    /\ Len(processed) < MaxRebars
    /\ \E r \in DrawingRebars(Len(processed) + 1, 1) :
         /\ rebar' = r
         /\ rebar_data' = getStirrupSVGData(r, rebars_svg)
         /\ processed' = Append(processed, Called(r, Offsets, rebar_data'))
    /\ pc' = <<"built", 1>>
    /\ UNCHANGED <<box, rebars_svg, h_dim_y_offset, v_dim_x_offset,
                   visible_rebars, svg, query>>

\* rebar_data = getUShapeRebarSVGData(rebar, view_plane, rebars_svg)
BuildUShape ==
    /\ pc[1] = "loop" /\ pc[2] \in 2..4
    /\ Len(processed) < MaxRebars
    /\ \E r \in DrawingRebars(Len(processed) + 1, pc[2]) :
         /\ rebar' = r
         /\ rebar_data' = getUShapeRebarSVGData(r, rebars_svg)
         /\ processed' = Append(processed, Called(r, Offsets, rebar_data'))
    /\ pc' = <<"built", pc[2]>>
    /\ UNCHANGED <<box, rebars_svg, h_dim_y_offset, v_dim_x_offset,
                   visible_rebars, svg, query>>

\* rebar_data = getStraightRebarSVGData(rebar, view_plane, offsets, rebars_svg)
BuildStraight ==
    /\ pc = <<"loop", 5>>
    /\ Len(processed) < MaxRebars
    /\ \E r \in DrawingRebars(Len(processed) + 1, 5) :
         /\ rebar' = r
         /\ rebar_data' = getStraightRebarSVGData(r, Offsets, rebars_svg)
         /\ processed' = Append(processed, Called(r, Offsets, rebar_data'))
    /\ pc' = IF rebar_data'.raised THEN <<"error">> ELSE <<"built", 5>>
    /\ UNCHANGED <<box, rebars_svg, h_dim_y_offset, v_dim_x_offset,
                   visible_rebars, svg, query>>

\* <category>_svg.append(kid): the tree with kid appended to the category
\* group created last
AppendToCategory(tree, kid) == [tree EXCEPT !.kids[Len(tree.kids)] = Append_(@, kid)]

\* AppendDropped is AppendVisible leaving the fragment out of the tree
AppendDropped ==
    /\ pc[1] = "built"
    /\ IF rebar_data.visibility
       THEN /\ visible_rebars' = Append(visible_rebars, rebar.Name)
            /\ IF pc[2] = 5
               THEN /\ h_dim_y_offset' = rebar_data.h_dim_y_offset
                    /\ v_dim_x_offset' = rebar_data.v_dim_x_offset
               ELSE UNCHANGED <<h_dim_y_offset, v_dim_x_offset>>
       ELSE UNCHANGED <<visible_rebars, h_dim_y_offset, v_dim_x_offset>>
    /\ pc' = <<"loop", pc[2]>>
    /\ UNCHANGED <<box, rebars_svg, rebar, rebar_data, processed, svg, query>>

\* AppendAlways is AppendVisible appending the fragment whatever the
\* visibility
AppendAlways ==
    /\ pc[1] = "built"
    /\ rebars_svg' = AppendToCategory(rebars_svg, rebar_data.svg)
    /\ IF rebar_data.visibility
       THEN /\ visible_rebars' = Append(visible_rebars, rebar.Name)
            /\ IF pc[2] = 5
               THEN /\ h_dim_y_offset' = rebar_data.h_dim_y_offset
                    /\ v_dim_x_offset' = rebar_data.v_dim_x_offset
               ELSE UNCHANGED <<h_dim_y_offset, v_dim_x_offset>>
       ELSE UNCHANGED <<visible_rebars, h_dim_y_offset, v_dim_x_offset>>
    /\ pc' = <<"loop", pc[2]>>
    /\ UNCHANGED <<box, rebar, rebar_data, processed, svg, query>>

\* if rebar_data["visibility"]: <category>_svg.append(rebar_data["svg"]); ...
AppendVisible ==
    /\ pc[1] = "built"
    /\ IF rebar_data.visibility
       THEN /\ rebars_svg' = AppendToCategory(rebars_svg, rebar_data.svg)
            /\ visible_rebars' = Append(visible_rebars, rebar.Name)
            /\ IF pc[2] = 5
               THEN /\ h_dim_y_offset' = rebar_data.h_dim_y_offset
                    /\ v_dim_x_offset' = rebar_data.v_dim_x_offset
               ELSE UNCHANGED <<h_dim_y_offset, v_dim_x_offset>>
       ELSE UNCHANGED <<rebars_svg, visible_rebars, h_dim_y_offset, v_dim_x_offset>>
    /\ pc' = <<"loop", pc[2]>>
    /\ UNCHANGED <<box, rebar, rebar_data, processed, svg, query>>

\* helical_rebars_svg.append(fromstring(Draft.getSVG(rebar, ...)))
AddHelical ==
    /\ pc = <<"loop", 6>>
    /\ Len(processed) < MaxRebars
    /\ \E r \in DrawingRebars(Len(processed) + 1, 6) :
         /\ rebar' = r
         /\ rebars_svg' = AppendToCategory(rebars_svg, DraftSVG(r))
         /\ visible_rebars' = Append(visible_rebars, r.Name)
         /\ processed' = Append(processed, Called(r, Offsets, NoValue))
    /\ UNCHANGED <<pc, box, h_dim_y_offset, v_dim_x_offset, rebar_data, svg, query>>

\* custom_rebars_svg.append(fromstring(Draft.getSVG(rebar, ...)))
AddCustom ==
    /\ pc = <<"loop", 7>>
    /\ Len(processed) < MaxRebars
    /\ \E r \in DrawingRebars(Len(processed) + 1, 7) :
         /\ rebar' = r
         /\ rebars_svg' = AppendToCategory(rebars_svg, DraftSVG(r))
         /\ processed' = Append(processed, Called(r, Offsets, NoValue))
    /\ UNCHANGED <<pc, box, h_dim_y_offset, v_dim_x_offset, rebar_data,
                   visible_rebars, svg, query>>

\* where the assembler goes when the loop over category k ends
NextPosition(k) == IF k < Len(Categories) THEN <<"loop", k + 1>> ELSE <<"frame">>

\* NextCategoryAlone is NextCategory starting the tree again from the new
\* category group
NextCategoryAlone ==
    /\ pc[1] = "loop"
    /\ pc' = NextPosition(pc[2])
    /\ IF pc'[1] = "loop"
       THEN rebars_svg' = WithCategory(Element("g", <<"Rebars">>, <<>>), pc'[2])
       ELSE UNCHANGED rebars_svg
    /\ IF pc' = <<"loop", 5>>
       THEN /\ h_dim_y_offset' = box.min_y + U(50)
            /\ v_dim_x_offset' = box.min_x + U(50)
       ELSE UNCHANGED <<h_dim_y_offset, v_dim_x_offset>>
    /\ UNCHANGED <<box, rebar, rebar_data, visible_rebars, processed, svg, query>>

\* the loop over the rebars of a category ends: the next category's group is
\* created and, before the straight rebars, the dimension offsets are set
NextCategory ==
    /\ pc[1] = "loop"
    /\ pc' = NextPosition(pc[2])
    /\ IF pc'[1] = "loop"
       THEN rebars_svg' = WithCategory(rebars_svg, pc'[2])
       ELSE UNCHANGED rebars_svg
    /\ IF pc' = <<"loop", 5>>
       THEN /\ h_dim_y_offset' = box.min_y + U(50)
            /\ v_dim_x_offset' = box.min_x + U(50)
       ELSE UNCHANGED <<h_dim_y_offset, v_dim_x_offset>>
    /\ UNCHANGED <<box, rebar, rebar_data, visible_rebars, processed, svg, query>>

\* DocumentFrameTight is DocumentFrame with half the margin on the height
DocumentFrameTight(b) ==
    LET svg_width == Round(b.max_x - b.min_x + U(200))
        svg_height == Round(b.max_y - b.min_y + U(100))
    IN  [transform |-> <<"translate", Round(0 - b.min_x + U(60)),
                         Round(0 - b.min_y + U(100))>>,
         width |-> <<svg_width, "mm">>,
         height |-> <<svg_height, "mm">>,
         viewBox |-> <<0, 0, svg_width, svg_height>>]

\* the attributes set on the drawing group and on the root element
DocumentFrame(b) ==
    LET svg_width == Round(b.max_x - b.min_x + U(200))
        svg_height == Round(b.max_y - b.min_y + U(200))
    IN  [transform |-> <<"translate", Round(0 - b.min_x + U(60)),
                         Round(0 - b.min_y + U(100))>>,
         width |-> <<svg_width, "mm">>,
         height |-> <<svg_height, "mm">>,
         viewBox |-> <<0, 0, svg_width, svg_height>>]

Frame ==
    /\ pc = <<"frame">>
    /\ svg' = DocumentFrame(box)
    /\ pc' = <<"done">>
    /\ UNCHANGED <<box, rebars_svg, h_dim_y_offset, v_dim_x_offset, rebar,
                   rebar_data, visible_rebars, processed, query>>

Next ==
    \/ BuildStirrup
    \/ BuildUShape
    \/ BuildStraight
    \/ AppendVisible
    \/ AddHelical
    \/ AddCustom
    \/ NextCategory
    \/ Frame

Spec == Init /\ [][Next]_vars

---------------------------------------------------------------------------
(* One call of a builder on an arbitrary accumulated tree.                 *)
(*                                                                         *)
(* pc is <<"call">> before the call, <<"returned">> after it and           *)
(* <<"raised">> when the call ended in an exception.                       *)

\* primitives an accumulated tree may hold: two lines, a point marker, a
\* fillet arc and a line whose ends coincide
AccPrims ==
    << getLineSVG(Marks.a, Marks.c), getLineSVG(Marks.c, Marks.d),
       getPointSVG(Marks.a, 8),
       getRoundCornerSVG(Edge("Circle", Marks.a, Marks.d, FALSE), U(1) + 2),
       getLineSVG(Marks.a, Marks.a) >>

RECURSIVE Picked(_, _, _)
Picked(prims, mask, i) ==
    IF i > Len(prims) THEN <<>>
    ELSE (IF mask[i] THEN <<prims[i]>> ELSE <<>>) \o Picked(prims, mask, i + 1)

\* the accumulated trees: one rebar group holding some of AccPrims
AccTrees ==
    {Element("g", <<"Rebars">>,
        << Element("g", <<"Stirrup">>,
              << Element("g", <<0>>, Picked(AccPrims, mask, 1)) >>) >>) :
       mask \in [1..Len(AccPrims) -> BOOLEAN]}

\* a placed stirrup is drawn from the vertices of its wire alone, so the
\* placed stirrups have straight edges; those of one edge are also placed
\* half a unit to either side of the base position
BuilderRebars ==
    {r \in Rebars(1, "Stirrup", WiresUpTo(MarkPoints, MaxEdges), {<<2, 0>>},
                  MaxPlacements) :
        r.faceon \/ \A i \in 1..Len(r.edges) : r.edges[i].geomType = "Line"}
    \cup Rebars(1, "Stirrup", LineWires(MarkPoints), {<<2, 0>>, <<0 - 2, 0>>},
                MaxPlacements)
    \cup Rebars(1, "UShapeRebar", WiresUpTo(MarkPoints, MaxEdges), {<<2, 0>>},
                MaxPlacements)
    \cup Rebars(1, "StraightRebar", LineWires(Points),
                {<<0, 0>>, <<2, 0>>, <<0, 2>>}, MaxPlacements)

InitBuild ==
    /\ pc = <<"call">>
    /\ box = BoundingExtent(BoxPoints(0))
    /\ rebars_svg \in AccTrees
    /\ h_dim_y_offset = U(50)
    /\ v_dim_x_offset = U(50)
    /\ rebar \in BuilderRebars
    /\ rebar_data = NoValue
    /\ visible_rebars = <<>>
    /\ processed = <<>>
    /\ svg = NoValue
    /\ query = NoValue

CallStirrup ==
    /\ pc = <<"call">>
    /\ rebar.RebarShape = "Stirrup"
    /\ rebar_data' = getStirrupSVGData(rebar, rebars_svg)
    /\ pc' = <<"returned">>
    /\ UNCHANGED <<box, rebars_svg, h_dim_y_offset, v_dim_x_offset, rebar,
                   visible_rebars, processed, svg, query>>

CallUShape ==
    /\ pc = <<"call">>
    /\ rebar.RebarShape = "UShapeRebar"
    /\ rebar_data' = getUShapeRebarSVGData(rebar, rebars_svg)
    /\ pc' = <<"returned">>
    /\ UNCHANGED <<box, rebars_svg, h_dim_y_offset, v_dim_x_offset, rebar,
                   visible_rebars, processed, svg, query>>

CallStraight ==
    /\ pc = <<"call">>
    /\ rebar.RebarShape = "StraightRebar"
    /\ rebar_data' = getStraightRebarSVGData(rebar, Offsets, rebars_svg)
    /\ pc' = IF rebar_data'.raised THEN <<"raised">> ELSE <<"returned">>
    /\ UNCHANGED <<box, rebars_svg, h_dim_y_offset, v_dim_x_offset, rebar,
                   visible_rebars, processed, svg, query>>

NextBuild ==
    \/ CallStirrup
    \/ CallUShape
    \/ CallStraight

SpecBuild == InitBuild /\ [][NextBuild]_vars

---------------------------------------------------------------------------
(* The round trip of a round corner: getRoundCornerSVG puts the path of an *)
(* arc in a tree, then isRoundCornerInSVG looks the arc up in that tree,   *)
(* as the same edge and as the same arc run from its other end.            *)

Radii == {U(k) + 2 : k \in 0..MaxCoord}

\* the same arc traversed from its other end: the ends swap and the
\* tangent turns the other way
Reversed(edge) == Edge(edge.geomType, edge.v1, edge.v0, ~edge.angle_neg)

InitArc ==
    /\ pc = <<"arc">>
    /\ query \in {[edge |-> Edge("Circle", p1, p2, neg), radius |-> rad] :
                    p1 \in Points, p2 \in Points, neg \in BOOLEAN, rad \in Radii}
    /\ box = BoundingExtent(BoxPoints(0))
    /\ rebars_svg = WithCategory(Element("g", <<"Rebars">>, <<>>), 1)
    /\ h_dim_y_offset = 0
    /\ v_dim_x_offset = 0
    /\ rebar = NoValue
    /\ rebar_data = NoValue
    /\ visible_rebars = <<>>
    /\ processed = <<>>
    /\ svg = NoValue

DrawArc ==
    /\ pc = <<"arc">>
    /\ rebars_svg' = AppendToCategory(rebars_svg,
                                      getRoundCornerSVG(query.edge, query.radius))
    /\ pc' = <<"drawn">>
    /\ UNCHANGED <<box, h_dim_y_offset, v_dim_x_offset, rebar, rebar_data,
                   visible_rebars, processed, svg, query>>

LookupArc ==
    /\ pc = <<"drawn">>
    /\ query' = [edge |-> query.edge, radius |-> query.radius,
                 same |-> isRoundCornerInSVG(query.edge, query.radius, rebars_svg),
                 reversed |-> isRoundCornerInSVG(Reversed(query.edge), query.radius,
                                                 rebars_svg)]
    /\ pc' = <<"looked">>
    /\ UNCHANGED <<box, rebars_svg, h_dim_y_offset, v_dim_x_offset, rebar,
                   rebar_data, visible_rebars, processed, svg>>

NextArc ==
    \/ DrawArc
    \/ LookupArc

SpecArc == InitArc /\ [][NextArc]_vars

---------------------------------------------------------------------------
(* View planes and the projection on them.  Here a vector is a triple of   *)
(* whole drawing units, and the plane vectors are the unit vectors along   *)
(* the coordinate axes that getViewPlane sets.                             *)
(*                                                                         *)
(* pc is <<"view">> before getViewPlane is called, <<"resolved">> when it  *)
(* has returned a plane, <<"rejected">> when it has printed the error and  *)
(* returned None, and <<"projected">> after getProjectionToSVGPlane.       *)

MaxVec == 1

Vector(x, y, z) == <<x, y, z>>

None == [none |-> TRUE, error |-> "Invalid/Unsupported view"]

plane(axis, v, u) == [axis |-> axis, v |-> v, u |-> u]

\* getViewPlaneDefault is getViewPlane with the last branch falling back to
\* the front view
getViewPlaneDefault(view) ==
    IF view = "Rear" THEN plane(Vector(0, 1, 0), Vector(0, 0, 0 - 1), Vector(0 - 1, 0, 0))
    ELSE IF view = "Left"
    THEN plane(Vector(0 - 1, 0, 0), Vector(0, 0, 0 - 1), Vector(0, 0 - 1, 0))
    ELSE IF view = "Right"
    THEN plane(Vector(1, 0, 0), Vector(0, 0, 0 - 1), Vector(0, 1, 0))
    ELSE IF view = "Top" THEN plane(Vector(0, 0, 1), Vector(0, 0 - 1, 0), Vector(1, 0, 0))
    ELSE IF view = "Bottom"
    THEN plane(Vector(0, 0, 0 - 1), Vector(0, 1, 0), Vector(1, 0, 0))
    ELSE plane(Vector(0, 0 - 1, 0), Vector(0, 0, 0 - 1), Vector(1, 0, 0))

\* getViewPlaneMirrored is getViewPlane with the rear view's u not reversed
getViewPlaneMirrored(view) ==
    IF view = "Front" THEN plane(Vector(0, 0 - 1, 0), Vector(0, 0, 0 - 1), Vector(1, 0, 0))
    ELSE IF view = "Rear" THEN plane(Vector(0, 1, 0), Vector(0, 0, 0 - 1), Vector(1, 0, 0))
    ELSE IF view = "Left"
    THEN plane(Vector(0 - 1, 0, 0), Vector(0, 0, 0 - 1), Vector(0, 0 - 1, 0))
    ELSE IF view = "Right"
    THEN plane(Vector(1, 0, 0), Vector(0, 0, 0 - 1), Vector(0, 1, 0))
    ELSE IF view = "Top" THEN plane(Vector(0, 0, 1), Vector(0, 0 - 1, 0), Vector(1, 0, 0))
    ELSE IF view = "Bottom"
    THEN plane(Vector(0, 0, 0 - 1), Vector(0, 1, 0), Vector(1, 0, 0))
    ELSE None

getViewPlane(view) ==
    IF view = "Front" THEN plane(Vector(0, 0 - 1, 0), Vector(0, 0, 0 - 1), Vector(1, 0, 0))
    ELSE IF view = "Rear"
    THEN plane(Vector(0, 1, 0), Vector(0, 0, 0 - 1), Vector(0 - 1, 0, 0))
    ELSE IF view = "Left"
    THEN plane(Vector(0 - 1, 0, 0), Vector(0, 0, 0 - 1), Vector(0, 0 - 1, 0))
    ELSE IF view = "Right"
    THEN plane(Vector(1, 0, 0), Vector(0, 0, 0 - 1), Vector(0, 1, 0))
    ELSE IF view = "Top" THEN plane(Vector(0, 0, 1), Vector(0, 0 - 1, 0), Vector(1, 0, 0))
    ELSE IF view = "Bottom"
    THEN plane(Vector(0, 0, 0 - 1), Vector(0, 1, 0), Vector(1, 0, 0))
    ELSE None

Dot(a, b) == a[1] * b[1] + a[2] * b[2] + a[3] * b[3]

\* DraftVecUtils.project(u, v): v scaled by (u . v) / (v . v)
project(u, v) ==
    LET k == Dot(u, v) \div Dot(v, v)
    IN  Vector(k * v[1], k * v[2], k * v[3])

\* the length of a vector along a coordinate axis
Length(a) == Abs(a[1]) + Abs(a[2]) + Abs(a[3])

\* abs(a.getAngle(b)) > 0.1 for a along b: the angle is 0 or pi; for the
\* null vector either answer negates a zero length
AngleOverTolerance(a, b) == Dot(a, b) < 0

\* getProjectionUnsigned is getProjectionToSVGPlane without the sign of ly
getProjectionUnsigned(vec, pl) ==
    LET nx == project(vec, pl.u)
        lx == IF AngleOverTolerance(nx, pl.u) THEN 0 - Length(nx) ELSE Length(nx)
        ny == project(vec, pl.v)
    IN  Vector(lx, Length(ny), 0)

getProjectionToSVGPlane(vec, pl) ==
    LET nx == project(vec, pl.u)
        lx == IF AngleOverTolerance(nx, pl.u) THEN 0 - Length(nx) ELSE Length(nx)
        ny == project(vec, pl.v)
        ly == IF AngleOverTolerance(ny, pl.v) THEN 0 - Length(ny) ELSE Length(ny)
    IN  Vector(lx, ly, 0)

\* the six supported names, a name in the wrong case and an unknown name
ViewNames == {"Front", "Rear", "Left", "Right", "Top", "Bottom", "front", "Isometric"}

Vectors == ((0 - MaxVec)..MaxVec) \X ((0 - MaxVec)..MaxVec) \X ((0 - MaxVec)..MaxVec)

Sum(a, b) == Vector(a[1] + b[1], a[2] + b[2], a[3] + b[3])

InitView ==
    /\ pc = <<"view">>
    /\ query \in {[view |-> n, p |-> a, q |-> b] :
                    n \in ViewNames, a \in Vectors, b \in Vectors}
    /\ box = BoundingExtent(BoxPoints(0))
    /\ rebars_svg = WithCategory(Element("g", <<"Rebars">>, <<>>), 1)
    /\ h_dim_y_offset = 0
    /\ v_dim_x_offset = 0
    /\ rebar = NoValue
    /\ rebar_data = NoValue
    /\ visible_rebars = <<>>
    /\ processed = <<>>
    /\ svg = NoValue

ResolveView ==
    /\ pc = <<"view">>
    /\ query' = [view |-> query.view, p |-> query.p, q |-> query.q,
                 view_plane |-> getViewPlane(query.view)]
    /\ pc' = IF query'.view_plane = None THEN <<"rejected">> ELSE <<"resolved">>
    /\ UNCHANGED <<box, rebars_svg, h_dim_y_offset, v_dim_x_offset, rebar,
                   rebar_data, visible_rebars, processed, svg>>

ProjectPoints ==
    /\ pc = <<"resolved">>
    /\ query' = [view |-> query.view, p |-> query.p, q |-> query.q,
                 view_plane |-> query.view_plane,
                 again |-> getViewPlane(query.view),
                 origin |-> getProjectionToSVGPlane(Vector(0, 0, 0), query.view_plane),
                 first |-> getProjectionToSVGPlane(query.p, query.view_plane),
                 second |-> getProjectionToSVGPlane(query.q, query.view_plane),
                 sum |-> getProjectionToSVGPlane(Sum(query.p, query.q),
                                                 query.view_plane)]
    /\ pc' = <<"projected">>
    /\ UNCHANGED <<box, rebars_svg, h_dim_y_offset, v_dim_x_offset, rebar,
                   rebar_data, visible_rebars, processed, svg>>

NextView ==
    \/ ResolveView
    \/ ProjectPoints

SpecView == InitView /\ [][NextView]_vars

---------------------------------------------------------------------------
(* Properties of the assembler, over the history of its builder calls.     *)

\* the category the assembler files a rebar under
CategoryOf(r) ==
    IF \E k \in 1..Len(Categories) : Categories[k] = r.RebarShape
    THEN CHOOSE k \in 1..Len(Categories) : Categories[k] = r.RebarShape
    ELSE Len(Categories)

StraightCalls ==
    {i \in 1..Len(processed) : processed[i].rebar.RebarShape = "StraightRebar"}

\* the wires a straight rebar projects to: its base wire, or one per placement
StraightWires(r) ==
    IF r.faceon THEN <<r.edges>>
    ELSE [i \in 1..Len(r.PlacementList) |-> Placed(r.edges, r.PlacementList[i])]

SameGeometry(r1, r2) ==
    /\ Len(StraightWires(r1)) = Len(StraightWires(r2))
    /\ \A i \in 1..Len(StraightWires(r1)) :
         /\ SameRounded(StraightWires(r1)[i][1].v0, StraightWires(r2)[i][1].v0)
         /\ SameRounded(StraightWires(r1)[i][1].v1, StraightWires(r2)[i][1].v1)

\* the projection of a straight wire is already in the tree
Drawn(wire, tree) ==
    IF SameRounded(wire[1].v0, wire[1].v1) THEN isPointInSVG(wire[1].v0, tree)
    ELSE isLineInSVG(wire[1].v0, wire[1].v1, tree)

\* two straight rebars of the same projected geometry, built one after the
\* other
TwinStraightCalls ==
    {i \in StraightCalls :
        /\ i + 1 \in StraightCalls
        /\ SameGeometry(processed[i].rebar, processed[i + 1].rebar)}

Filed(name, tree) ==
    \E k \in 1..Len(tree.kids) : \E m \in 1..Len(tree.kids[k].kids) :
        tree.kids[k].kids[m].tag = "g" /\ tree.kids[k].kids[m].at = <<name>>

\* C1, as stated: of two straight rebars of identical projected geometry
\* built one after the other, the first is returned visible with its
\* line/point appended and the second invisible with an empty fragment.
FirstTwinVisible ==
    \A i \in TwinStraightCalls :
        /\ processed[i].data.visibility
        /\ Len(processed[i].data.svg.kids) >= 1
        /\ ~processed[i + 1].data.visibility
        /\ processed[i + 1].data.svg.kids = <<>>

\* C1, amended: of two straight rebars of identical projected geometry built
\* one after the other, the second is always returned invisible with an
\* empty fragment and its group is never added; the first is returned
\* visible exactly when some line/point of it is not yet in the accumulated
\* SVG, so a rebar of an earlier category that drew the same geometry
\* suppresses both.
SecondTwinSuppressed ==
    \A i \in TwinStraightCalls :
        /\ ~processed[i + 1].data.visibility
        /\ processed[i + 1].data.svg.kids = <<>>
        /\ ~Filed(processed[i + 1].rebar.Name, rebars_svg)
        /\ processed[i].data.visibility <=>
             \E k \in 1..Len(StraightWires(processed[i].rebar)) :
                 ~Drawn(StraightWires(processed[i].rebar)[k], processed[i].seen)
        /\ processed[i].data.visibility => Len(processed[i].data.svg.kids) >= 1

SecondTwinSuppressedWitness ==
    /\ pc = <<"loop", 5>>
    /\ \E i \in TwinStraightCalls :
         /\ i + 1 = Len(processed)
         /\ processed[i].data.visibility
         /\ Filed(processed[i].rebar.Name, rebars_svg)
         /\ ~Filed(processed[i + 1].rebar.Name, rebars_svg)

\* a dimension was placed for the straight rebar of call e
PlacedDimension(e) == e.rebar.faceon /\ e.data.visibility /\ ~e.data.raised

\* the leader of the placed dimension runs horizontally
HorizontalLeader(e) == e.data.svg.kids[2].kids[1].at[4] = "H"

LabelY(e) == e.data.svg.kids[2].kids[2].at[3]

\* C4: over the pass across the straight rebars every placed dimension
\* advances the accumulator of its own orientation by exactly 100 and leaves
\* the other unchanged, the accumulators never decrease, and the labels of
\* two successive horizontal dimensions lie exactly 100 apart.
DimensionOffsetsAdvance ==
    /\ \A i \in StraightCalls :
         LET e == processed[i]
         IN  /\ PlacedDimension(e) /\ HorizontalLeader(e) =>
                  /\ e.data.h_dim_y_offset = e.off.h_dim_y_offset + U(100)
                  /\ e.data.v_dim_x_offset = e.off.v_dim_x_offset
             /\ PlacedDimension(e) /\ ~HorizontalLeader(e) =>
                  /\ e.data.v_dim_x_offset = e.off.v_dim_x_offset + U(100)
                  /\ e.data.h_dim_y_offset = e.off.h_dim_y_offset
             /\ i + 1 \in StraightCalls =>
                  /\ processed[i + 1].off.h_dim_y_offset =
                       IF PlacedDimension(e) /\ HorizontalLeader(e)
                       THEN e.off.h_dim_y_offset + U(100) ELSE e.off.h_dim_y_offset
                  /\ processed[i + 1].off.v_dim_x_offset =
                       IF PlacedDimension(e) /\ ~HorizontalLeader(e)
                       THEN e.off.v_dim_x_offset + U(100) ELSE e.off.v_dim_x_offset
             /\ i = Len(processed) /\ pc[1] \in {"built", "error"} =>
                  /\ h_dim_y_offset = e.off.h_dim_y_offset
                  /\ v_dim_x_offset = e.off.v_dim_x_offset
             /\ i = Len(processed) /\ pc = <<"loop", 5>> =>
                  /\ h_dim_y_offset >= e.off.h_dim_y_offset
                  /\ v_dim_x_offset >= e.off.v_dim_x_offset
                  /\ h_dim_y_offset = e.data.h_dim_y_offset
                  /\ v_dim_x_offset = e.data.v_dim_x_offset
    /\ \A i \in StraightCalls : \A j \in StraightCalls :
         /\ i < j
         /\ PlacedDimension(processed[i]) /\ HorizontalLeader(processed[i])
         /\ PlacedDimension(processed[j]) /\ HorizontalLeader(processed[j])
         /\ \A m \in (i + 1)..(j - 1) :
              ~(PlacedDimension(processed[m]) /\ HorizontalLeader(processed[m]))
         => LabelY(processed[j]) - LabelY(processed[i]) = U(100)

DimensionOffsetsAdvanceWitness ==
    /\ pc = <<"loop", 5>>
    /\ \E i \in StraightCalls : \E j \in StraightCalls :
         /\ i < j
         /\ PlacedDimension(processed[i]) /\ HorizontalLeader(processed[i])
         /\ PlacedDimension(processed[j]) /\ HorizontalLeader(processed[j])
         /\ LabelY(processed[j]) = LabelY(processed[i]) + U(100)
    /\ \E i \in StraightCalls :
         PlacedDimension(processed[i]) /\ ~HorizontalLeader(processed[i])

\* the fragment the assembler files for call j
FragmentOf(j) ==
    IF CategoryOf(processed[j].rebar) <= 5 THEN processed[j].data.svg
    ELSE DraftSVG(processed[j].rebar)

FiledCall(j) ==
    IF CategoryOf(processed[j].rebar) <= 5 THEN processed[j].data.visibility
    ELSE TRUE

\* the fragments, in order, of the visible rebars of category k among the
\* calls j..(i - 1)
RECURSIVE FragmentsBefore(_, _, _)
FragmentsBefore(i, k, j) ==
    IF j >= i THEN <<>>
    ELSE (IF CategoryOf(processed[j].rebar) = k /\ FiledCall(j)
          THEN <<FragmentOf(j)>> ELSE <<>>)
         \o FragmentsBefore(i, k, j + 1)

\* C8: the calls come in the category order stirrup, bent, U-shape, L-shape,
\* straight, helical, custom, and the accumulated SVG a builder is handed
\* holds, category by category, exactly the fragments of the visible rebars
\* built before it, and no group of a later category.
CumulativeInCategoryOrder ==
    /\ \A i \in 1..Len(processed) : \A j \in 1..Len(processed) :
         i < j => CategoryOf(processed[i].rebar) <= CategoryOf(processed[j].rebar)
    /\ \A i \in 1..Len(processed) :
         processed[i].seen =
             Element("g", <<"Rebars">>,
                     [k \in 1..CategoryOf(processed[i].rebar) |->
                        Element("g", <<Categories[k]>>, FragmentsBefore(i, k, 1))])
    /\ pc[1] \in {"loop", "built"} => Len(rebars_svg.kids) = pc[2]

CumulativeInCategoryOrderWitness ==
    \E i \in 1..Len(processed) : \E j \in 1..Len(processed) :
        /\ i < j /\ j < Len(processed)
        /\ CategoryOf(processed[i].rebar) < CategoryOf(processed[j].rebar)
        /\ CategoryOf(processed[j].rebar) = 5
        /\ CategoryOf(processed[Len(processed)].rebar) = 5
        /\ processed[i].data.visibility
        /\ ~processed[j].data.visibility
        /\ Len(Descendants(processed[Len(processed)].seen)) > 5

\* tree u holds everything tree t holds, at the same place
Grows(t, u) ==
    /\ t.tag = u.tag /\ t.at = u.at
    /\ Len(t.kids) <= Len(u.kids)
    /\ \A k \in 1..Len(t.kids) :
         /\ u.kids[k].tag = t.kids[k].tag /\ u.kids[k].at = t.kids[k].at
         /\ Len(t.kids[k].kids) <= Len(u.kids[k].kids)
         /\ \A m \in 1..Len(t.kids[k].kids) : u.kids[k].kids[m] = t.kids[k].kids[m]

\* tree u holds a rebar's fragment that tree t does not
NewFragments(t, u) ==
    \E k \in 1..Len(u.kids) :
        u.kids[k].kids # (IF k <= Len(t.kids) THEN t.kids[k].kids ELSE <<>>)

\* C9, as stated: rebars_svg gets a new fragment only when the assembler
\* appends the fragment of a rebar reported visible, that is, of a rebar it
\* adds to visible_rebars.
FragmentsOnlyOfVisible ==
    [][NewFragments(rebars_svg, rebars_svg') =>
         visible_rebars' = Append(visible_rebars, rebar'.Name)]_vars

\* C9, amended: rebars_svg only grows, no builder call changes it, and it
\* gets a new fragment only when the assembler appends the fragment of a
\* rebar a builder reported visible or the exported SVG of a helical or
\* custom rebar; the latter is appended unconditionally, and a custom rebar
\* is not reported visible at all.
TreeOnlyGrows ==
    [][/\ Grows(rebars_svg, rebars_svg')
       /\ pc[1] = "loop" /\ pc'[1] \in {"built", "error"} => rebars_svg' = rebars_svg
       /\ NewFragments(rebars_svg, rebars_svg') =>
            \/ /\ pc[1] = "built" /\ rebar_data.visibility
               /\ rebars_svg' = AppendToCategory(rebars_svg, rebar_data.svg)
               /\ visible_rebars' = Append(visible_rebars, rebar.Name)
            \/ /\ pc = <<"loop", 6>>
               /\ rebars_svg' = AppendToCategory(rebars_svg, DraftSVG(rebar'))
               /\ visible_rebars' = Append(visible_rebars, rebar'.Name)
            \/ /\ pc = <<"loop", 7>>
               /\ rebars_svg' = AppendToCategory(rebars_svg, DraftSVG(rebar'))
               /\ visible_rebars' = visible_rebars]_vars

TreeOnlyGrowsWitness ==
    /\ pc = <<"loop", 7>>
    /\ Len(processed) = MaxRebars
    /\ CategoryOf(processed[1].rebar) <= 5 /\ processed[1].data.visibility
    /\ CategoryOf(processed[2].rebar) <= 5 /\ ~processed[2].data.visibility
    /\ Filed(processed[1].rebar.Name, rebars_svg)
    /\ ~Filed(processed[2].rebar.Name, rebars_svg)
    /\ rebars_svg.kids[7].kids = <<DraftSVG(rebar)>>
    /\ Len(visible_rebars) = 1

\* n is c quarter units rounded to a whole unit, a tie going to the even side
Rounded(c, n) == 4 * n - c \in (0 - 2)..2 /\ (Abs(4 * n - c) = 2 => n % 2 = 0)

\* C10: the document's width, height and viewBox size are
\* round(max_x-min_x+200) and round(max_y-min_y+200), the viewBox origin is
\* 0 0 and width and height carry the mm unit, whatever rebars are visible.
DocumentSize ==
    pc = <<"done">> =>
        /\ Rounded(box.max_x - box.min_x + U(200), svg.width[1])
        /\ Rounded(box.max_y - box.min_y + U(200), svg.height[1])
        /\ svg.width[2] = "mm" /\ svg.height[2] = "mm"
        /\ svg.viewBox = <<0, 0, svg.width[1], svg.height[1]>>

DocumentSizeWitness ==
    /\ pc = <<"done">>
    /\ Len(visible_rebars) >= 2 /\ Len(visible_rebars) < Len(processed)
    /\ (box.max_x - box.min_x) % 4 = 2
    /\ svg.viewBox[3] % 2 = 0

---------------------------------------------------------------------------
(* Properties of one builder call. *)

\* the primitive a face-on builder draws for an edge of rebar r
EdgeDrawing(edge, r) ==
    IF r.RebarShape = "Stirrup"
    THEN IF edge.geomType = "Line" THEN getLineSVG(edge.v0, edge.v1)
         ELSE getRoundCornerSVG(edge, r.radius)
    ELSE IF edge.geomType = "Line"
    THEN IF SameRounded(edge.v0, edge.v1) THEN getPointSVG(edge.v0, r.Diameter)
         ELSE getLineSVG(edge.v0, edge.v1)
    ELSE IF Round(edge.v0[1]) = Round(edge.v1[1]) \/ Round(edge.v0[2]) = Round(edge.v1[2])
    THEN getLineSVG(edge.v0, edge.v1)
    ELSE getRoundCornerSVG(edge, r.radius)

\* the containment predicate of that primitive finds it in the tree
EdgeEquivalent(edge, r, tree) ==
    IF EdgeDrawing(edge, r).tag = "circle" THEN isPointInSVG(edge.v0, tree)
    ELSE IF EdgeDrawing(edge, r).tag = "line" THEN isLineInSVG(edge.v0, edge.v1, tree)
    ELSE isRoundCornerInSVG(edge, r.radius, tree)

\* the U-shape builder draws an edge that projects to a point without
\* testing it
EdgeTested(edge, r) == r.RebarShape = "Stirrup" \/ EdgeDrawing(edge, r).tag # "circle"

\* a face-on profile of several edges was built: its edge 1 has an
\* equivalent in the accumulated SVG, its edge 2 has none
SecondEdgeNovel ==
    /\ pc = <<"returned">>
    /\ rebar.RebarShape \in {"Stirrup", "UShapeRebar"}
    /\ rebar.faceon
    /\ Len(rebar.edges) >= 2
    /\ EdgeEquivalent(rebar.edges[1], rebar, rebars_svg)
    /\ ~EdgeEquivalent(rebar.edges[2], rebar, rebars_svg)

\* C2, as stated: when edge 1 of a face-on profile has an equivalent and
\* edge 2 has none, the builder returns visibility=true and a fragment that
\* holds both edge 1 and edge 2.
BothEdgesDrawn ==
    SecondEdgeNovel =>
        /\ rebar_data.visibility
        /\ \E m \in 1..Len(rebar_data.svg.kids) : \E n \in 1..Len(rebar_data.svg.kids) :
             /\ m # n
             /\ rebar_data.svg.kids[m] = EdgeDrawing(rebar.edges[1], rebar)
             /\ rebar_data.svg.kids[n] = EdgeDrawing(rebar.edges[2], rebar)

\* C2, amended: when edge 1 of a face-on profile has an equivalent that the
\* builder's test finds and edge 2 has none, edge 1 stays out of the
\* fragment: the fragment is the run of edges from the first one found
\* novel to the last, and when edge 2 is an edge the builder tests, the
\* builder returns visibility=true and the fragment is edge 2 and every
\* later edge.
FirstEdgeStaysSuppressed ==
    SecondEdgeNovel =>
        LET kids == rebar_data.svg.kids
            n == Len(rebar.edges)
        IN  /\ Len(kids) < n
            /\ kids = [m \in 1..Len(kids) |->
                         EdgeDrawing(rebar.edges[n - Len(kids) + m], rebar)]
            /\ rebar_data.visibility <=> kids # <<>>
            /\ EdgeTested(rebar.edges[2], rebar) =>
                 rebar_data.visibility /\ Len(kids) = n - 1

FirstEdgeStaysSuppressedWitness ==
    /\ SecondEdgeNovel
    /\ EdgeTested(rebar.edges[2], rebar)
    /\ rebar.RebarShape = "UShapeRebar"
    /\ rebar.edges[1].geomType = "Circle"
    /\ rebar_data.svg.kids = <<EdgeDrawing(rebar.edges[2], rebar)>>

\* a face-on straight rebar not yet in the accumulated SVG was built
NovelStraightFaceOn ==
    /\ pc # <<"call">>
    /\ rebar.RebarShape = "StraightRebar"
    /\ rebar.faceon
    /\ ~Drawn(rebar.edges, rebars_svg)

LeaderCommand == rebar_data.svg.kids[2].kids[1].at[4]

HAdvanced ==
    /\ rebar_data.h_dim_y_offset = h_dim_y_offset + U(100)
    /\ rebar_data.v_dim_x_offset = v_dim_x_offset

VAdvanced ==
    /\ rebar_data.v_dim_x_offset = v_dim_x_offset + U(100)
    /\ rebar_data.h_dim_y_offset = h_dim_y_offset

\* C5, as stated: the dimension leader is horizontal (H command,
\* h_dim_y_offset advances) exactly when |p2.y-p1.y| < |p2.x-p1.x| and
\* vertical (V command, v_dim_x_offset advances) otherwise.
HorizontalWhenFlatter ==
    NovelStraightFaceOn /\ pc = <<"returned">> =>
        IF Abs(rebar.edges[1].v1[2] - rebar.edges[1].v0[2])
             < Abs(rebar.edges[1].v1[1] - rebar.edges[1].v0[1])
        THEN LeaderCommand = "H" /\ HAdvanced
        ELSE LeaderCommand = "V" /\ VAdvanced

\* C5, amended: the dimension leader is vertical (V command,
\* dimension_line_horizontal false, v_dim_x_offset advances) exactly when
\* |p2.y-p1.y| < |p2.x-p1.x|; otherwise the horizontal branch is taken (H
\* command, dimension_line_horizontal true, h_dim_y_offset advances), and
\* that branch raises ZeroDivisionError when p1 and p2 coincide.
VerticalWhenFlatter ==
    NovelStraightFaceOn =>
        IF Abs(rebar.edges[1].v1[2] - rebar.edges[1].v0[2])
             < Abs(rebar.edges[1].v1[1] - rebar.edges[1].v0[1])
        THEN pc = <<"returned">> /\ LeaderCommand = "V" /\ VAdvanced
        ELSE IF rebar.edges[1].v0 = rebar.edges[1].v1
        THEN pc = <<"raised">>
        ELSE pc = <<"returned">> /\ LeaderCommand = "H" /\ HAdvanced

VerticalWhenFlatterWitness ==
    /\ NovelStraightFaceOn
    /\ pc = <<"returned">>
    /\ rebar.edges[1].v1[2] # rebar.edges[1].v0[2]
    /\ Abs(rebar.edges[1].v1[2] - rebar.edges[1].v0[2])
         < Abs(rebar.edges[1].v1[1] - rebar.edges[1].v0[1])
    /\ LeaderCommand = "V"
    /\ rebar_data.v_dim_x_offset = U(150)

\* C6: the fragment a straight rebar's placement list yields holds no two
\* primitives with the same rounded coordinates.
NoTwinPrimitives ==
    pc = <<"returned">> /\ rebar.RebarShape = "StraightRebar" /\ ~rebar.faceon =>
        \A m \in 1..Len(rebar_data.svg.kids) : \A n \in 1..Len(rebar_data.svg.kids) :
            m # n => rebar_data.svg.kids[m] # rebar_data.svg.kids[n]

\* C7, as stated: in both branches a straight rebar returned visible comes
\* back with exactly one of the two accumulators 100 larger than passed in.
OneOffsetAdvanced ==
    pc = <<"returned">> /\ rebar.RebarShape = "StraightRebar"
        /\ rebar_data.visibility =>
            \/ HAdvanced
            \/ VAdvanced

\* C7, amended: a straight rebar returned visible comes back with exactly
\* one of the two accumulators 100 larger than passed in when it is drawn
\* face-on, and with both accumulators as passed in when it is drawn
\* through its placement list, where no dimension is drawn.
OneOffsetAdvancedFaceOn ==
    pc = <<"returned">> /\ rebar.RebarShape = "StraightRebar" =>
        /\ rebar_data.visibility /\ rebar.faceon =>
             /\ HAdvanced \/ VAdvanced
             /\ ~(HAdvanced /\ VAdvanced)
        /\ ~rebar.faceon \/ ~rebar_data.visibility =>
             /\ rebar_data.h_dim_y_offset = h_dim_y_offset
             /\ rebar_data.v_dim_x_offset = v_dim_x_offset
             /\ \A m \in 1..Len(rebar_data.svg.kids) :
                  rebar_data.svg.kids[m].tag \in {"line", "circle"}

OneOffsetAdvancedFaceOnWitness ==
    /\ pc = <<"returned">>
    /\ rebar.RebarShape = "StraightRebar"
    /\ ~rebar.faceon
    /\ rebar_data.visibility
    /\ Len(rebar.PlacementList) = 2
    /\ Len(rebar_data.svg.kids) = 2
    /\ rebar_data.h_dim_y_offset = U(50) /\ rebar_data.v_dim_x_offset = U(50)

---------------------------------------------------------------------------
(* Property of the round trip of a round corner. *)

\* C3: once the path getRoundCornerSVG produces for an arc is in a tree,
\* isRoundCornerInSVG finds the arc in that tree both as the same edge and
\* as the same arc run from its other end with the sweep inverted.
ArcFoundBothWays ==
    pc = <<"looked">> => query.same /\ query.reversed

\* the edges a builder walks, in iteration order: the profile's edges, or
\* the edges of each placed copy in turn
RECURSIVE PlacedEdges(_, _)
PlacedEdges(r, i) ==
    IF i > Len(r.PlacementList) THEN <<>>
    ELSE Placed(r.edges, r.PlacementList[i]) \o PlacedEdges(r, i + 1)

WalkedEdges(r) == IF r.faceon THEN r.edges ELSE PlacedEdges(r, 1)

\* the drawings of the walked edges from the first one that has no
\* equivalent in the tree
FromFirstNovel(r, tree) ==
    LET es == WalkedEdges(r)
        novel == {j \in 1..Len(es) : ~EdgeEquivalent(es[j], r, tree)}
    IN  IF novel = {} THEN <<>>
        ELSE LET first == CHOOSE j \in novel : \A k \in novel : j <= k
             IN  [m \in 1..(Len(es) - first + 1) |->
                    EdgeDrawing(es[first + m - 1], r)]

\* C13, as stated: in the U/bent/L-shape builder, face-on or through the
\* placement list, edge i is in the fragment if and only if some edge
\* j <= i has no equivalent of its own kind (point marker, line or arc) in
\* the accumulated SVG.
NovelEdgesDrawn ==
    pc = <<"returned">> /\ rebar.RebarShape = "UShapeRebar" =>
        rebar_data.svg.kids = FromFirstNovel(rebar, rebars_svg)

\* the representative line of placement i of a stirrup
StirrupPoints(r, i) ==
    getStirrupSVGPoints(Vertexes(Placed(r.edges, r.PlacementList[i])), r.alignV)

StirrupLine(r, i) == getLineSVG(StirrupPoints(r, i)[1], StirrupPoints(r, i)[2])

StirrupDuplicate(r, i, tree) ==
    isLineInSVG(StirrupPoints(r, i)[1], StirrupPoints(r, i)[2], tree)

PlacedStirrupBuilt ==
    /\ pc = <<"returned">>
    /\ rebar.RebarShape = "Stirrup"
    /\ ~rebar.faceon

\* C14: getStirrupSVGData with a placement list returns the representative
\* lines of the placements from the first one that is not in the accumulated
\* SVG to the last, in iteration order, whether or not the later ones are in
\* the accumulated SVG; when every placement is a duplicate it returns an
\* empty fragment and visibility=false.
StirrupSuffixFromFirstNovel ==
    PlacedStirrupBuilt =>
        LET n == Len(rebar.PlacementList)
            novel == {i \in 1..n : ~StirrupDuplicate(rebar, i, rebars_svg)}
            kids == rebar_data.svg.kids
        IN  IF novel = {}
            THEN kids = <<>> /\ ~rebar_data.visibility
            ELSE LET first == CHOOSE i \in novel : \A k \in novel : i <= k
                 IN  /\ rebar_data.visibility
                     /\ kids = [m \in 1..(n - first + 1) |->
                                  StirrupLine(rebar, first + m - 1)]

\* the first placement is new, the last is in the accumulated SVG, and both
\* were drawn
StirrupSuffixFromFirstNovelWitness ==
    /\ PlacedStirrupBuilt
    /\ Len(rebar.PlacementList) >= 2
    /\ ~StirrupDuplicate(rebar, 1, rebars_svg)
    /\ StirrupDuplicate(rebar, Len(rebar.PlacementList), rebars_svg)
    /\ Len(rebar_data.svg.kids) = Len(rebar.PlacementList)
    /\ rebar_data.svg.kids[Len(rebar.PlacementList)]
         = StirrupLine(rebar, Len(rebar.PlacementList))

\* the flag a builder returned agrees with the fragment it returned
FlagMatchesFragment(data) == data.visibility <=> data.svg.kids # <<>>

\* the calls of the deduplicating builders that returned
ReturnedCalls ==
    {j \in 1..Len(processed) :
        /\ CategoryOf(processed[j].rebar) <= 5
        /\ ~(pc = <<"error">> /\ j = Len(processed))}

\* the assembler has looked at the result of call j
Decided(j) == j < Len(processed) \/ pc[1] # "built"

\* the fragment of call j is a per-rebar group of the accumulated tree
FiledFragment(j) ==
    \E k \in 1..Len(rebars_svg.kids) : \E m \in 1..Len(rebars_svg.kids[k].kids) :
        rebars_svg.kids[k].kids[m] = processed[j].data.svg

\* C15: each of the three deduplicating builders returns visibility=true if
\* and only if the fragment it returns holds at least one primitive, so the
\* assembler files a rebar's group if and only if the group is not empty.
VisibleIffDrawn ==
    /\ pc = <<"returned">> => FlagMatchesFragment(rebar_data)
    /\ \A j \in ReturnedCalls :
         /\ FlagMatchesFragment(processed[j].data)
         /\ Decided(j) => (FiledFragment(j) <=> processed[j].data.svg.kids # <<>>)

\* an empty fragment was left out, and a fragment of the straight builder
\* and one of another builder were filed
VisibleIffDrawnWitness ==
    /\ pc[1] = "loop"
    /\ \E i \in ReturnedCalls :
         processed[i].data.svg.kids = <<>> /\ ~FiledFragment(i)
    /\ \A straight \in BOOLEAN : \E j \in ReturnedCalls :
         /\ (CategoryOf(processed[j].rebar) = 5) = straight
         /\ processed[j].data.svg.kids # <<>>
         /\ FiledFragment(j)

\* C16, as stated: for every visible straight rebar in the face-on branch,
\* one whose two projected endpoints coincide included, the call of
\* getLineDimensionsData divides by a non-zero (p2.x - p1.x) or
\* (p2.y - p1.y) and the builder returns.
DimensionDivisorNonZero ==
    /\ pc # <<"call">>
    /\ rebar.RebarShape = "StraightRebar"
    /\ rebar.faceon
    => /\ pc = <<"returned">>
       /\ ~rebar_data.raised

---------------------------------------------------------------------------
(* Properties of the view planes and of the projection. *)

\* the documented axis and its paired u and v, per view name
DocumentedPlanes ==
    [Front |-> <<<<0, 0 - 1, 0>>, <<1, 0, 0>>, <<0, 0, 0 - 1>>>>,
     Rear |-> <<<<0, 1, 0>>, <<0 - 1, 0, 0>>, <<0, 0, 0 - 1>>>>,
     Left |-> <<<<0 - 1, 0, 0>>, <<0, 0 - 1, 0>>, <<0, 0, 0 - 1>>>>,
     Right |-> <<<<1, 0, 0>>, <<0, 1, 0>>, <<0, 0, 0 - 1>>>>,
     Top |-> <<<<0, 0, 1>>, <<1, 0, 0>>, <<0, 0 - 1, 0>>>>,
     Bottom |-> <<<<0, 0, 0 - 1>>, <<1, 0, 0>>, <<0, 1, 0>>>>]

\* C11: getViewPlane returns the documented (axis, u, v) for each of the six
\* names, the same on every call, and for any other name reports an error
\* and returns None.
NamedViewsResolved ==
    pc # <<"view">> =>
        IF query.view \in DOMAIN DocumentedPlanes
        THEN /\ pc \in {<<"resolved">>, <<"projected">>}
             /\ <<query.view_plane.axis, query.view_plane.u, query.view_plane.v>>
                  = DocumentedPlanes[query.view]
             /\ pc = <<"projected">> => query.again = query.view_plane
        ELSE /\ pc = <<"rejected">>
             /\ query.view_plane = None
             /\ query.view_plane.error # ""

NamedViewsResolvedWitness ==
    \/ pc = <<"rejected">> /\ query.view = "front"
    \/ /\ pc = <<"projected">> /\ query.view = "Bottom"
       /\ query.again.axis = <<0, 0, 0 - 1>>

\* C12: getProjectionToSVGPlane maps the origin to (0,0), always returns
\* z = 0, and on the six view planes project(p+q) = project(p) + project(q)
\* with project(p) = (p.u, p.v).
ProjectionLinear ==
    pc = <<"projected">> =>
        /\ query.origin = <<0, 0, 0>>
        /\ query.first[3] = 0 /\ query.second[3] = 0 /\ query.sum[3] = 0
        /\ query.sum = Sum(query.first, query.second)
        /\ query.first = <<Dot(query.p, query.view_plane.u),
                           Dot(query.p, query.view_plane.v), 0>>

ProjectionLinearWitness ==
    /\ pc = <<"projected">>
    /\ query.first[1] < 0 /\ query.first[2] > 0
    /\ query.second[1] > 0 /\ query.second[2] < 0
    /\ query.sum = <<0, 0, 0>>
    /\ query.view = "Left"

Cross(a, b) ==
    <<a[2] * b[3] - a[3] * b[2], a[3] * b[1] - a[1] * b[3], a[1] * b[2] - a[2] * b[1]>>

\* C17: for the six named views the triple is orthonormal and axis = v x u
\* in every view.
PlanesRightHanded ==
    pc \in {<<"resolved">>, <<"projected">>} =>
        LET axis == query.view_plane.axis
            u == query.view_plane.u
            v == query.view_plane.v
        IN  /\ Dot(axis, axis) = 1 /\ Dot(u, u) = 1 /\ Dot(v, v) = 1
            /\ Dot(axis, u) = 0 /\ Dot(axis, v) = 0 /\ Dot(u, v) = 0
            /\ axis = Cross(v, u)

PlanesRightHandedWitness ==
    /\ pc = <<"resolved">>
    /\ query.view = "Rear"
    /\ Cross(query.view_plane.v, query.view_plane.u) = <<0, 1, 0>>

=============================================================================
